---- MODULE Spec2Model ----
(***************************************************************************)
(* polybar-pomo: a pomodoro timer for a status bar, controlled over a unix *)
(* socket.  src/polybar-pomo.go holds two programs: the channel-based one  *)
(* (lines 1-203), where connection handlers hand their command to a single *)
(* select loop, and the mutex-based one (lines 205-391), where handlers    *)
(* and a background Update loop mutate the state under a mutex.            *)
(*                                                                         *)
(* Time.  Timestamps (now, End, the timer's and the ticker's next firing)  *)
(* are counted in clock steps of 1/Second of a second from an epoch that   *)
(* lies on a whole wall-clock second.  Whenever a full second has passed   *)
(* the epoch is moved forward by that second and every timestamp with it,  *)
(* which changes no difference between timestamps and no rounding to whole *)
(* seconds, and keeps the clock within 0..Second-1.                        *)
(***************************************************************************)
EXTENDS Integers, Sequences, FiniteSets, TLC

\* ---------------------------------------------------------------- bounds
\* clock steps per second (the resolution of the model's clock)
Second == 3
\* seconds per minute of the model (a minute of 60 s scaled down)
MinuteSecs == 1
\* connections accepted during a run
MaxConns == 2
Minute == MinuteSecs * Second

\* ------------------------------------------------------- program constants
\* the values given for the -w and -r flags: work and rest period in minutes
wFlag == 2
rFlag == 1
Work == 0
Rest == 1
\* the step of `inc` / `dec`, in seconds
IncStep == 5
\* the step of the tick while paused, in seconds
TickStep == 1
\* capacity of the channel of a time.Timer / time.Ticker
ChanCap == 1

WorkDuration == wFlag * Minute
RestDuration == rFlag * Minute

\* ------------------------------------------------------------- characters
Space == {" ", "\n", "\t", "\r"}

ToLowerChar(ch) ==
    CASE ch = "P" -> "p" [] ch = "A" -> "a" [] ch = "U" -> "u"
      [] ch = "S" -> "s" [] ch = "E" -> "e" [] ch = "T" -> "t"
      [] ch = "O" -> "o" [] ch = "G" -> "g" [] ch = "L" -> "l"
      [] ch = "I" -> "i" [] ch = "N" -> "n" [] ch = "C" -> "c"
      [] ch = "D" -> "d" [] OTHER -> ch

ToLower(s) == [i \in 1..Len(s) |-> ToLowerChar(s[i])]

RECURSIVE TrimLeft(_)
TrimLeft(s) ==
    IF s # <<>> /\ Head(s) \in Space THEN TrimLeft(Tail(s)) ELSE s

RECURSIVE TrimRight(_)
TrimRight(s) ==
    IF s # <<>> /\ s[Len(s)] \in Space
    THEN TrimRight(SubSeq(s, 1, Len(s) - 1))
    ELSE s

\* mutant: every white space is removed, not only the surrounding one
TrimSpaceEverywhere(s) == SelectSeq(s, LAMBDA ch : ch \notin Space)

TrimSpace(s) == TrimRight(TrimLeft(s))

\* what a client may write on a connection (conn.Read returns n >= 1 bytes)
Inputs ==
    { <<"P","A","U","S","E","\n">>,
      <<" ","t","o","g","g","l","e","\n">>,
      <<"i","n","c","\n">>,
      <<"D","e","c">>,
      <<"f","o","o","b","a","r">>,
      <<"\n">>,
      <<"i","n"," ","c">> }

PauseMsg  == <<"p","a","u","s","e">>
ToggleMsg == <<"t","o","g","g","l","e">>
IncMsg    == <<"i","n","c">>
DecMsg    == <<"d","e","c">>

\* mutant: the message is compared as written, not in lower case
MessageAsWritten(buffer) == TrimSpace(buffer)

\* line 122
Message(buffer) == TrimSpace(ToLower(buffer))

\* mutant: `toggle` is sent on a channel the select loop does not read
ChannelOfUnserved(message) ==
    CASE message = PauseMsg  -> "pause"
      [] message = ToggleMsg -> "unserved"
      [] message = IncMsg    -> "inc"
      [] message = DecMsg    -> "inc"
      [] OTHER               -> "none"

\* lines 124-133: the channel a message goes to ("none": no case matches)
ChannelOf(message) ==
    CASE message = PauseMsg  -> "pause"
      [] message = ToggleMsg -> "toggle"
      [] message = IncMsg    -> "inc"
      [] message = DecMsg    -> "inc"
      [] OTHER               -> "none"

\* mutant: the signs of `inc` and `dec` are swapped
IncValueSwapped(message) ==
    CASE message = IncMsg -> -(IncStep * Second)
      [] message = DecMsg -> IncStep * Second
      [] OTHER            -> 0

\* lines 130, 132: the value sent on incChannel
IncValue(message) ==
    CASE message = IncMsg -> IncStep * Second
      [] message = DecMsg -> -(IncStep * Second)
      [] OTHER            -> 0

\* ------------------------------------------------------------------ state
VARIABLES
    now,            \* time.Now()
    asynctimerchan, \* the build: TRUE when Stop/Reset leave a value that a
                    \* timer has already sent in its channel (Go < 1.23),
                    \* FALSE when they discard it (Go >= 1.23)
    End,            \* state.End
    Paused,         \* state.Paused
    Status,         \* state.Status
    Timer,          \* state.Timer: [active, when, C]
    Ticker,         \* state.Ticker: [active, next, C]
    conn,           \* per connection: the HandleRequest goroutine
    out,            \* the lines written to standard output since the
                    \* clock last moved
    hist,           \* history: the select cases the main loop has taken
                    \* since the clock last moved, each with the state it
                    \* found: <<[op, End, Paused, Status], ...>>
    pausedFor,      \* history: <<[remaining, Status]>>, End - now and the
                    \* phase as they were when the running timer was paused,
                    \* while no other command has been applied since; <<>>
                    \* otherwise
    program,        \* which of the two programs runs: "channel" or "mutex"
    mu,             \* state.mu: the goroutine that holds it, or Free
    update,         \* the Update goroutine: its position
    render          \* the display loop of main: [pc, suffix, line, wake],
                    \* its position, the locals of String, and the time
                    \* at which its Sleep ends

\* the connections of the run
Conns == DOMAIN conn

vars == <<now, asynctimerchan, End, Paused, Status, Timer, Ticker, conn, out,
          hist, pausedFor, program, mu, update, render>>

\* the variables of the mutex-based program only
mvars == <<program, mu, update, render>>

ghost == <<hist, pausedFor>>

pstate == <<End, Paused, Status, Timer>>

\* ------------------------------------------------------- time arithmetic
\* mutant: the time is truncated to the whole second
RoundTimeDown(t) == t - (t % Second)

\* time.Time.Round(time.Second): nearest whole second, halfway rounds up
RoundTime(t) ==
    LET r == t % Second
    IN  IF r + r < Second THEN t - r ELSE t + (Second - r)

Abs(d) == IF d < 0 THEN -d ELSE d

\* time.Duration.Round(time.Second): halfway rounds away from zero
RoundDuration(d) ==
    LET a == Abs(d)
        r == a % Second
        q == IF r + r < Second THEN a - r ELSE a + (Second - r)
    IN  IF d < 0 THEN -q ELSE q

\* int(x): truncation toward zero of a quotient
TruncDiv(a, b) == IF a < 0 THEN -((-a) \div b) ELSE a \div b

\* mutant: the two durations are swapped
GetDurationSwapped(status) == IF status = Work THEN RestDuration ELSE WorkDuration

\* lines 105-111
GetDuration(status) == IF status = Work THEN WorkDuration ELSE RestDuration

\* mutant: the status is counted modulo three
NextStatusMod3(status) == (status + 1) % 3

\* line 88
NextStatus(status) == (status + 1) % 2

\* ------------------------------------------------------------ time.Timer
\* a value already sent stays in the channel unless the build discards it
Pending(t) == IF asynctimerchan THEN t.C ELSE 0

TimerStop(t) == [active |-> FALSE, when |-> 0, C |-> Pending(t)]

TimerReset(t, d) == [active |-> TRUE, when |-> now + d, C |-> Pending(t)]

\* ------------------------------------------------------------------ String
\* lines 59-74
Suffix(paused, status) ==
    IF paused THEN "pause" ELSE IF status = Work THEN "tomato" ELSE "rest"

String(end, paused, status) ==
    LET elapsedTime == RoundDuration(end - now)
        minutes     == TruncDiv(elapsedTime, Minute)
        seconds     == TruncDiv(elapsedTime, Second) - MinuteSecs * minutes
    IN  [suffix |-> Suffix(paused, status), minutes |-> minutes, seconds |-> seconds]

\* lines 200-201
Println == out' = Append(out, String(End', Paused', Status'))

\* the step writes nothing
Silent == UNCHANGED out

\* ------------------------------------------------------ PomodoroState ops
\* lines 77-84
Pause ==
    /\ Timer' = IF Paused THEN TimerReset(Timer, End - now) ELSE TimerStop(Timer)
    /\ Paused' = ~Paused
    /\ UNCHANGED <<End, Status>>

\* mutant: Toggle also starts the timer running
ToggleFromUnpausing(t) ==
    LET nextStatus == NextStatus(Status)
        duration   == GetDuration(nextStatus)
    IN  /\ Status' = nextStatus
        /\ Timer' = TimerReset(t, duration)
        /\ End' = now + duration
        /\ Paused' = FALSE

\* lines 87-94; `t` is the timer as the select case left it
ToggleFrom(t) ==
    LET nextStatus == NextStatus(Status)
        duration   == GetDuration(nextStatus)
    IN  /\ Status' = nextStatus
        /\ Timer' = TimerReset(t, duration)
        /\ End' = now + duration
        /\ UNCHANGED Paused

Toggle == ToggleFrom(Timer)

\* lines 97-103
Inc(increment) ==
    LET remainingTime == (End - now) + increment
    IN  /\ End' = RoundTime(End + increment)
        /\ Timer' = IF ~Paused THEN TimerReset(Timer, remainingTime) ELSE Timer
        /\ UNCHANGED <<Paused, Status>>

\* ---------------------------------------------------------------- history
NoHist == <<>>

\* the main loop takes the select case `op`
Record(op) ==
    hist' = Append(hist, [op |-> op, End |-> End, Paused |-> Paused, Status |-> Status])

\* Pause() was applied: remember the remaining time of a timer now paused
RecordPause ==
    pausedFor' = IF ~Paused
                 THEN <<[remaining |-> End - now, Status |-> Status]>>
                 ELSE <<>>

\* -------------------------------------------------------------------- Init
\* the goroutines that take state.mu, and the value of a mutex nobody holds
Updater == <<"Update", 0>>

Renderer == <<"main", 0>>

Handler(c) == <<"HandleRequest", c>>

Free == <<"free", 0>>

\* the channel-based program has neither an Update goroutine nor a display
\* loop
NoRender == [pc |-> "none", suffix |-> "", line |-> <<>>, wake |-> 0]

Idle == [pc |-> "idle", buffer |-> <<>>, message |-> <<>>]

Ended(pc) == [pc |-> pc, buffer |-> <<>>, message |-> <<>>]

\* lines 42-56, 178: NewPomodoro(Work, true); `n` connections will be made
InitFor(n) ==
    /\ now \in 0..(Second - 1)
    /\ asynctimerchan \in BOOLEAN
    /\ Status = Work
    /\ Paused = TRUE
    /\ End = now + GetDuration(Work)
    /\ Timer = [active |-> FALSE, when |-> 0, C |-> 0]
    /\ Ticker = [active |-> TRUE, next |-> now + Second, C |-> 0]
    /\ conn = [c \in 1..n |-> Idle]
    /\ out = <<>>
    /\ hist = NoHist
    /\ pausedFor = <<>>
    /\ program = "channel"
    /\ mu = Free
    /\ update = "none"
    /\ render = NoRender

Init == InitFor(MaxConns)

\* ------------------------------------------------------ connection handlers
\* mutant: the accept loop handles a connection itself before it accepts
\* the next one
AcceptSequential(c) ==
    /\ conn[c].pc = "idle"
    /\ \A d \in 1..(c - 1) : conn[d].pc \in {"done", "ignored", "failed"}
    /\ conn' = [conn EXCEPT ![c].pc = "read"]
    /\ Silent
    /\ UNCHANGED <<mvars, now, asynctimerchan, pstate, Ticker, ghost>>

\* lines 166-175: the accept loop starts a handler for a new connection
Accept(c) ==
    /\ conn[c].pc = "idle"
    /\ \A d \in 1..(c - 1) : conn[d].pc # "idle"
    /\ conn' = [conn EXCEPT ![c].pc = "read"]
    /\ Silent
    /\ UNCHANGED <<mvars, now, asynctimerchan, pstate, Ticker, ghost>>

\* lines 117, 122-133: the read returns the client's bytes; the handler
\* either blocks on its channel send or, when no case matches, returns
ReadInput(c, buffer) ==
    /\ conn[c].pc = "read"
    /\ LET message == Message(buffer)
       IN  conn' = [conn EXCEPT ![c] =
               IF ChannelOf(message) = "none"
               THEN Ended("ignored")
               ELSE [pc |-> "send", buffer |-> buffer, message |-> message]]
    /\ Silent
    /\ UNCHANGED <<mvars, now, asynctimerchan, pstate, Ticker, ghost>>

Read(c) == \E buffer \in Inputs : ReadInput(c, buffer)

\* clients that send `pause` only
PauseInputs == {b \in Inputs : Message(b) = PauseMsg}

ReadPause(c) == \E buffer \in PauseInputs : ReadInput(c, buffer)

\* clients that send `inc` and `dec` only, but for the first, which may
\* send `pause`
IncInputs == {b \in Inputs : Message(b) \in {IncMsg, DecMsg}}

ReadInc(c) ==
    \E buffer \in IF c = 1 THEN IncInputs \cup PauseInputs ELSE IncInputs :
        ReadInput(c, buffer)

\* mutant: the handler reports the error and goes on to send `pause`
ReadErrorGoesOn(c) ==
    /\ conn[c].pc = "read"
    /\ conn' = [conn EXCEPT ![c] =
           [pc |-> "send", buffer |-> <<>>, message |-> PauseMsg]]
    /\ out' = Append(out, [suffix |-> "Error reading:", minutes |-> 0, seconds |-> 0])
    /\ UNCHANGED <<mvars, now, asynctimerchan, pstate, Ticker, ghost>>

\* lines 118-121: the read fails (the client closed without writing, ...)
ReadError(c) ==
    /\ conn[c].pc = "read"
    /\ conn' = [conn EXCEPT ![c] = Ended("failed")]
    /\ out' = Append(out, [suffix |-> "Error reading:", minutes |-> 0, seconds |-> 0])
    /\ UNCHANGED <<mvars, now, asynctimerchan, pstate, Ticker, ghost>>

Sending(c, ch) == conn[c].pc = "send" /\ ChannelOf(conn[c].message) = ch

Received(c) == conn' = [conn EXCEPT ![c] = Ended("done")]

\* ---------------------------------------------------------- the main loop
\* mutant: a tick writes a line only when it changes the state
MainTickerQuiet ==
    /\ Ticker.C > 0
    /\ Ticker' = [Ticker EXCEPT !.C = 0]
    /\ IF Paused THEN Inc(TickStep * Second) /\ Println
                 ELSE UNCHANGED pstate /\ Silent
    /\ Record("tick")
    /\ UNCHANGED <<mvars, now, asynctimerchan, conn, pausedFor>>

\* lines 185-188
MainTicker ==
    /\ Ticker.C > 0
    /\ Ticker' = [Ticker EXCEPT !.C = 0]
    /\ IF Paused THEN Inc(TickStep * Second) ELSE UNCHANGED pstate
    /\ Println
    /\ Record("tick")
    /\ UNCHANGED <<mvars, now, asynctimerchan, conn, pausedFor>>

\* mutant: the expiry toggles whether paused or not
MainTimerUnguarded ==
    /\ Timer.C > 0
    /\ ToggleFrom([Timer EXCEPT !.C = 0])
    /\ Println
    /\ Record("timer")
    /\ UNCHANGED <<mvars, now, asynctimerchan, Ticker, conn, pausedFor>>

\* lines 189-192
MainTimer ==
    /\ Timer.C > 0
    /\ IF ~Paused
       THEN ToggleFrom([Timer EXCEPT !.C = 0])
       ELSE /\ Timer' = [Timer EXCEPT !.C = 0]
            /\ UNCHANGED <<End, Paused, Status>>
    /\ Println
    /\ Record("timer")
    /\ UNCHANGED <<mvars, now, asynctimerchan, Ticker, conn, pausedFor>>

\* lines 193-194
MainPause(c) ==
    /\ Sending(c, "pause")
    /\ Received(c)
    /\ Pause
    /\ Println
    /\ Record("pause")
    /\ RecordPause
    /\ UNCHANGED <<mvars, now, asynctimerchan, Ticker>>

\* mutant: one Toggle serves every `toggle` that is waiting
MainToggleAll(c) ==
    /\ Sending(c, "toggle")
    /\ conn' = [d \in Conns |-> IF Sending(d, "toggle") THEN Ended("done") ELSE conn[d]]
    /\ Toggle
    /\ Println
    /\ Record("toggle")
    /\ pausedFor' = <<>>
    /\ UNCHANGED <<mvars, now, asynctimerchan, Ticker>>

\* lines 195-196
MainToggle(c) ==
    /\ Sending(c, "toggle")
    /\ Received(c)
    /\ Toggle
    /\ Println
    /\ Record("toggle")
    /\ pausedFor' = <<>>
    /\ UNCHANGED <<mvars, now, asynctimerchan, Ticker>>

\* lines 197-198
MainInc(c) ==
    /\ Sending(c, "inc")
    /\ Received(c)
    /\ Inc(IncValue(conn[c].message))
    /\ Println
    /\ Record(IF IncValue(conn[c].message) > 0 THEN "inc" ELSE "dec")
    /\ pausedFor' = <<>>
    /\ UNCHANGED <<mvars, now, asynctimerchan, Ticker>>

\* ------------------------------------------------------------ the runtime
\* the timer reaches its deadline and sends on its channel
TimerFire ==
    /\ Timer.active
    /\ Timer.when <= now
    /\ Timer' = [active |-> FALSE, when |-> 0, C |-> ChanCap]
    /\ Silent
    /\ UNCHANGED <<mvars, now, asynctimerchan, End, Paused, Status, Ticker, conn, ghost>>

\* the ticker sends every second; a tick nobody has taken yet is dropped
TickerFire ==
    /\ Ticker.active
    /\ Ticker.next <= now
    /\ Ticker' = [Ticker EXCEPT !.next = @ + Second, !.C = ChanCap]
    /\ Silent
    /\ UNCHANGED <<mvars, now, asynctimerchan, pstate, conn, ghost>>

\* some case of the select is ready
Ready ==
    \/ Ticker.C > 0
    \/ Timer.C > 0
    \/ \E c \in Conns : conn[c].pc = "send"

Due ==
    \/ Timer.active /\ Timer.when <= now
    \/ Ticker.active /\ Ticker.next <= now

\* the epoch moves forward by `e`
Shift(t, e) == t - e

\* time passes once the runtime and the main loop have nothing left to do
Advance ==
    /\ ~Ready
    /\ ~Due
    /\ LET e == IF now + 1 = Second THEN Second ELSE 0
       IN  /\ now' = Shift(now + 1, e)
           /\ End' = Shift(End, e)
           /\ Timer' = IF Timer.active
                       THEN [Timer EXCEPT !.when = Shift(Timer.when, e)]
                       ELSE Timer
           /\ Ticker' = IF Ticker.active
                        THEN [Ticker EXCEPT !.next = Shift(Ticker.next, e)]
                        ELSE Ticker
    /\ hist' = NoHist
    /\ out' = <<>>
    /\ UNCHANGED <<mvars, asynctimerchan, Paused, Status, conn, pausedFor>>

Next ==
    \/ \E c \in Conns : Accept(c)
    \/ \E c \in Conns : Read(c)
    \/ \E c \in Conns : ReadError(c)
    \/ MainTicker
    \/ MainTimer
    \/ \E c \in Conns : MainPause(c)
    \/ \E c \in Conns : MainToggle(c)
    \/ \E c \in Conns : MainInc(c)
    \/ TimerFire
    \/ TickerFire
    \/ Advance

Spec == Init /\ [][Next]_vars

\* Runs of one connection more, whose clients send `pause` only.
PauseInit == InitFor(MaxConns + 1)

PauseNext ==
    \/ \E c \in Conns : Accept(c)
    \/ \E c \in Conns : ReadPause(c)
    \/ MainTicker
    \/ MainTimer
    \/ \E c \in Conns : MainPause(c)
    \/ TimerFire
    \/ TickerFire
    \/ Advance

PauseSpec == PauseInit /\ [][PauseNext]_vars

\* Runs of one connection more, whose clients send `inc` and `dec` only,
\* after a first that may send `pause`.
IncInit == InitFor(MaxConns + 1)

IncNext ==
    \/ \E c \in Conns : Accept(c)
    \/ \E c \in Conns : ReadInc(c)
    \/ MainTicker
    \/ MainTimer
    \/ \E c \in Conns : MainPause(c)
    \/ \E c \in Conns : MainInc(c)
    \/ TimerFire
    \/ TickerFire
    \/ Advance

IncSpec == IncInit /\ [][IncNext]_vars

\* The runtime delivers due timers, the select loop takes a ready case, and
\* the clock moves on.
Fairness ==
    /\ WF_vars(TimerFire)
    /\ WF_vars(TickerFire)
    /\ WF_vars(MainTicker)
    /\ WF_vars(MainTimer)
    /\ WF_vars(\E c \in Conns : MainPause(c))
    /\ WF_vars(\E c \in Conns : MainToggle(c))
    /\ WF_vars(\E c \in Conns : MainInc(c))
    /\ WF_vars(Advance)

FairSpec == Spec /\ Fairness

\* ==================================================== the mutex-based program
\* Lines 205-391.  The state is the same PomodoroState with a mutex: the
\* handlers call Pause and Toggle themselves, a goroutine Update applies the
\* expiry and the ticks, and main renders once a second.  Every function is
\* modelled statement by statement between its Lock and its Unlock.  The
\* periods are the constants 25 and 5 minutes; the model runs this program
\* with the periods of the channel-based one.

\* time.Ticker.Stop / Reset
TickerStop(t) == [active |-> FALSE, next |-> 0, C |-> Pending(t)]

TickerReset(t, d) == [active |-> TRUE, next |-> now + d, C |-> Pending(t)]

\* the goroutines that call Pause and Toggle
Mutators == {Updater} \cup {Handler(c) : c \in Conns}

PcOf(w) == IF w = Updater THEN update ELSE conn[w[2]].pc

Goto(w, pc) ==
    IF w = Updater
    THEN update' = pc /\ UNCHANGED conn
    ELSE conn' = [conn EXCEPT ![w[2]].pc = pc] /\ UNCHANGED update

\* the call returns: Update goes back to its select, a handler ends
Return(w) ==
    IF w = Updater
    THEN update' = "select" /\ UNCHANGED conn
    ELSE conn' = [conn EXCEPT ![w[2]] = Ended("done")] /\ UNCHANGED update

\* mutant: Lock does not wait for the holder
MuLockNoWait(w) == mu' = w

\* state.mu.Lock()
MuLock(w) == mu = Free /\ mu' = w

\* state.mu.Unlock()
MuUnlock == mu' = Free

\* lines 244-261, 354: NewPomodoro(Work, false).  This program rounds no
\* time to the whole second of the wall clock (there is no Inc), so the
\* epoch is put at its start.
MutexInit ==
    /\ now = 0
    /\ asynctimerchan \in BOOLEAN
    /\ Status = Work
    /\ Paused = FALSE
    /\ End = now + GetDuration(Work)
    /\ Timer = [active |-> TRUE, when |-> now + GetDuration(Work), C |-> 0]
    /\ Ticker = [active |-> FALSE, next |-> 0, C |-> 0]
    /\ conn = [c \in 1..MaxConns |-> Idle]
    /\ out = <<>>
    /\ hist = NoHist
    /\ pausedFor = <<>>
    /\ program = "mutex"
    /\ mu = Free
    /\ update = "select"
    /\ render = [pc |-> "String", suffix |-> "", line |-> <<>>, wake |-> 0]

\* lines 344-349: the handler calls Pause or Toggle, or returns
MutexCall(message) ==
    CASE message = PauseMsg  -> "Pause"
      [] message = ToggleMsg -> "Toggle"
      [] OTHER               -> "none"

MutexReadInput(c, buffer) ==
    /\ conn[c].pc = "read"
    /\ LET message == Message(buffer)
       IN  conn' = [conn EXCEPT ![c] =
               IF MutexCall(message) = "none"
               THEN Ended("ignored")
               ELSE [pc |-> MutexCall(message), buffer |-> buffer,
                     message |-> message]]
    /\ Silent
    /\ UNCHANGED <<mvars, now, asynctimerchan, pstate, Ticker, ghost>>

MutexRead(c) == \E buffer \in Inputs : MutexReadInput(c, buffer)

\* lines 313-315
ToggleLock(w) ==
    /\ PcOf(w) = "Toggle"
    /\ MuLock(w)
    /\ Goto(w, "Toggle.Status")
    /\ Silent
    /\ UNCHANGED <<program, render, now, asynctimerchan, pstate, Ticker, ghost>>

\* lines 317-320
ToggleStatus(w) ==
    /\ PcOf(w) = "Toggle.Status"
    /\ Status' = NextStatus(Status)
    /\ Goto(w, "Toggle.End")
    /\ Silent
    /\ UNCHANGED <<program, mu, render, now, asynctimerchan, End, Paused, Timer,
                   Ticker, ghost>>

\* lines 321-323; Status is nextStatus by now
ToggleEnd(w) ==
    /\ PcOf(w) = "Toggle.End"
    /\ Timer' = TimerReset(Timer, GetDuration(Status))
    /\ End' = now + GetDuration(Status)
    /\ MuUnlock
    /\ Return(w)
    /\ Silent
    /\ UNCHANGED <<program, render, now, asynctimerchan, Paused, Status, Ticker,
                   ghost>>

\* lines 298-300
PauseLock(w) ==
    /\ PcOf(w) = "Pause"
    /\ MuLock(w)
    /\ Goto(w, "Pause.Timer")
    /\ Silent
    /\ UNCHANGED <<program, render, now, asynctimerchan, pstate, Ticker, ghost>>

\* lines 302-308
PauseTimer(w) ==
    /\ PcOf(w) = "Pause.Timer"
    /\ IF Paused
       THEN /\ Ticker' = TickerStop(Ticker)
            /\ Timer' = TimerReset(Timer, End - now)
       ELSE /\ Ticker' = TickerReset(Ticker, Second)
            /\ Timer' = TimerStop(Timer)
    /\ Goto(w, "Pause.Paused")
    /\ Silent
    /\ UNCHANGED <<program, mu, render, now, asynctimerchan, End, Paused, Status,
                   ghost>>

\* lines 309-310
PausePaused(w) ==
    /\ PcOf(w) = "Pause.Paused"
    /\ Paused' = ~Paused
    /\ MuUnlock
    /\ Return(w)
    /\ Silent
    /\ UNCHANGED <<program, render, now, asynctimerchan, End, Status, Timer,
                   Ticker, ghost>>

\* lines 286-288: Update receives the expiry and calls Toggle
UpdateTimer ==
    /\ update = "select"
    /\ Timer.C > 0
    /\ Timer' = [Timer EXCEPT !.C = 0]
    /\ update' = "Toggle"
    /\ Silent
    /\ UNCHANGED <<program, mu, render, now, asynctimerchan, End, Paused, Status,
                   Ticker, conn, ghost>>

\* line 289: Update receives a tick
UpdateTicker ==
    /\ update = "select"
    /\ Ticker.C > 0
    /\ Ticker' = [Ticker EXCEPT !.C = 0]
    /\ update' = "Tick"
    /\ Silent
    /\ UNCHANGED <<program, mu, render, now, asynctimerchan, pstate, conn, ghost>>

\* line 290
TickLock ==
    /\ update = "Tick"
    /\ MuLock(Updater)
    /\ update' = "Tick.End"
    /\ Silent
    /\ UNCHANGED <<program, render, now, asynctimerchan, pstate, Ticker, conn,
                   ghost>>

\* mutant: the tick leaves End as it is
TickEndIdle ==
    /\ update = "Tick.End"
    /\ MuUnlock
    /\ update' = "select"
    /\ Silent
    /\ UNCHANGED <<program, render, now, asynctimerchan, End, Paused, Status,
                   Timer, Ticker, conn, ghost>>

\* lines 291-292
TickEnd ==
    /\ update = "Tick.End"
    /\ End' = End + TickStep * Second
    /\ MuUnlock
    /\ update' = "select"
    /\ Silent
    /\ UNCHANGED <<program, render, now, asynctimerchan, Paused, Status, Timer,
                   Ticker, conn, ghost>>

\* lines 264-265
StringLock ==
    /\ render.pc = "String"
    /\ MuLock(Renderer)
    /\ render' = [render EXCEPT !.pc = "String.suffix"]
    /\ Silent
    /\ UNCHANGED <<program, update, now, asynctimerchan, pstate, Ticker, conn,
                   ghost>>

\* lines 267-274
StringSuffix ==
    /\ render.pc = "String.suffix"
    /\ render' = [render EXCEPT !.pc = "String.elapsedTime",
                                !.suffix = Suffix(Paused, Status)]
    /\ Silent
    /\ UNCHANGED <<program, mu, update, now, asynctimerchan, pstate, Ticker, conn,
                   ghost>>

\* lines 276-280
StringElapsedTime ==
    /\ render.pc = "String.elapsedTime"
    /\ render' = [render EXCEPT
           !.pc = "Println",
           !.suffix = "",
           !.line = <<[String(End, Paused, Status) EXCEPT !.suffix = render.suffix]>>]
    /\ MuUnlock
    /\ Silent
    /\ UNCHANGED <<program, update, now, asynctimerchan, pstate, Ticker, conn,
                   ghost>>

\* lines 388-389: the line is written and the loop goes to sleep
MutexPrintln ==
    /\ render.pc = "Println"
    /\ out' = Append(out, render.line[1])
    /\ render' = [render EXCEPT !.pc = "Sleep", !.line = <<>>,
                                !.wake = now + Second]
    /\ UNCHANGED <<program, mu, update, now, asynctimerchan, pstate, Ticker, conn,
                   ghost>>

\* line 389: the second is over
Sleep ==
    /\ render.pc = "Sleep"
    /\ render.wake <= now
    /\ render' = [render EXCEPT !.pc = "String", !.wake = 0]
    /\ Silent
    /\ UNCHANGED <<program, mu, update, now, asynctimerchan, pstate, Ticker, conn,
                   ghost>>

\* a handler not yet started, blocked in its read, or ended
Waiting == {"idle", "read", "done", "ignored", "failed"}

\* a goroutine has a statement to execute, or waits for the mutex
MutexReady ==
    \/ update # "select"
    \/ Timer.C > 0
    \/ Ticker.C > 0
    \/ render.pc # "Sleep"
    \/ render.wake <= now
    \/ \E c \in Conns : conn[c].pc \notin Waiting

\* time passes once the runtime and the goroutines have nothing left to do
MutexAdvance ==
    /\ ~MutexReady
    /\ ~Due
    /\ LET e == IF now + 1 = Second THEN Second ELSE 0
       IN  /\ now' = Shift(now + 1, e)
           /\ End' = Shift(End, e)
           /\ Timer' = IF Timer.active
                       THEN [Timer EXCEPT !.when = Shift(Timer.when, e)]
                       ELSE Timer
           /\ Ticker' = IF Ticker.active
                        THEN [Ticker EXCEPT !.next = Shift(Ticker.next, e)]
                        ELSE Ticker
           /\ render' = [render EXCEPT !.wake = Shift(render.wake, e)]
    /\ out' = <<>>
    /\ UNCHANGED <<program, mu, update, asynctimerchan, Paused, Status, conn,
                   ghost>>

MutexNext ==
    \/ \E c \in Conns : Accept(c)
    \/ \E c \in Conns : MutexRead(c)
    \/ \E c \in Conns : ReadError(c)
    \/ \E w \in Mutators : ToggleLock(w)
    \/ \E w \in Mutators : ToggleStatus(w)
    \/ \E w \in Mutators : ToggleEnd(w)
    \/ \E w \in Mutators : PauseLock(w)
    \/ \E w \in Mutators : PauseTimer(w)
    \/ \E w \in Mutators : PausePaused(w)
    \/ UpdateTimer
    \/ UpdateTicker
    \/ TickLock
    \/ TickEnd
    \/ StringLock
    \/ StringSuffix
    \/ StringElapsedTime
    \/ MutexPrintln
    \/ Sleep
    \/ TimerFire
    \/ TickerFire
    \/ MutexAdvance

MutexSpec == MutexInit /\ [][MutexNext]_vars

\* Runs of either program whose clients send well-formed commands only.
Commands == {b \in Inputs : ChannelOf(Message(b)) # "none"}

ReadCommand(c) == \E buffer \in Commands : ReadInput(c, buffer)

MutexCommands == {b \in Inputs : MutexCall(Message(b)) # "none"}

MutexReadCommand(c) == \E buffer \in MutexCommands : MutexReadInput(c, buffer)

AtomicInit == Init \/ MutexInit

ChannelCommandNext ==
    \/ \E c \in Conns : Accept(c)
    \/ \E c \in Conns : ReadCommand(c)
    \/ MainTicker
    \/ MainTimer
    \/ \E c \in Conns : MainPause(c)
    \/ \E c \in Conns : MainToggle(c)
    \/ \E c \in Conns : MainInc(c)
    \/ TimerFire
    \/ TickerFire
    \/ Advance

MutexCommandNext ==
    \/ \E c \in Conns : Accept(c)
    \/ \E c \in Conns : MutexReadCommand(c)
    \/ \E w \in Mutators : ToggleLock(w)
    \/ \E w \in Mutators : ToggleStatus(w)
    \/ \E w \in Mutators : ToggleEnd(w)
    \/ \E w \in Mutators : PauseLock(w)
    \/ \E w \in Mutators : PauseTimer(w)
    \/ \E w \in Mutators : PausePaused(w)
    \/ UpdateTimer
    \/ UpdateTicker
    \/ TickLock
    \/ TickEnd
    \/ StringLock
    \/ StringSuffix
    \/ StringElapsedTime
    \/ MutexPrintln
    \/ Sleep
    \/ TimerFire
    \/ TickerFire
    \/ MutexAdvance

AtomicNext ==
    \/ program = "channel" /\ ChannelCommandNext
    \/ program = "mutex" /\ MutexCommandNext

AtomicSpec == AtomicInit /\ [][AtomicNext]_vars

\* ================================================================== claims
\* what the specification calls the other phase, and a phase's period
Other(status) == IF status = Work THEN Rest ELSE Work

ConfiguredDuration(status) ==
    IF status = Work THEN wFlag * Minute ELSE rFlag * Minute

\* the cases the main loop has taken since the clock last moved
Ops == [i \in 1..Len(hist) |-> hist[i].op]

LastOp == IF hist = <<>> THEN "" ELSE hist[Len(hist)].op

\* the step is an application of Toggle: a `toggle` command or an expiry
\* that takes effect
ToggleApplied == (\E c \in Conns : MainToggle(c)) \/ (MainTimer /\ ~Paused)

\* C1: every application of Toggle (command or expiry) changes the phase to
\* the other value, nothing else changes the phase, the phase is always Work
\* or Rest, and it starts as Work.
C1_PhaseAlternates ==
    /\ Status = Work
    /\ [][ /\ Status' \in {Work, Rest}
           /\ ToggleApplied => Status' = Other(Status)
           /\ Status' # Status => ToggleApplied ]_vars

\* an expiry has turned Rest back into Work
C1_Witness ==
    /\ Ops = <<"timer">>
    /\ ~hist[1].Paused
    /\ hist[1].Status = Rest
    /\ Status = Work

\* C2: while paused, an expiry-timer event leaves phase, paused and
\* periodEnd as they are, and the phase of a paused timer changes only by a
\* `toggle` command.
C2_NoExpiryWhilePaused ==
    [][ /\ (MainTimer /\ Paused) => UNCHANGED <<Status, Paused, End>>
        /\ (Paused /\ Status' # Status) => \E c \in Conns : MainToggle(c) ]_vars

\* the main loop has taken an expiry-timer event of a paused timer
C2_Witness ==
    /\ Ops = <<"timer">>
    /\ hist[1].Paused
    /\ Paused
    /\ Status = hist[1].Status
    /\ End = hist[1].End

\* C4: an expiry of a running timer switches to the other phase and sets
\* periodEnd to now + the configured duration of the new phase; when no
\* command was applied at that instant, it happens with now at periodEnd,
\* to the half second by which an earlier inc/dec has rounded periodEnd;
\* and a running timer does not stay in its phase forever.
C4_Expiry ==
    /\ [][ (MainTimer /\ ~Paused) =>
             /\ Status' = Other(Status)
             /\ End' = now + ConfiguredDuration(Other(Status))
             /\ ~Paused'
             /\ hist = <<>> => 2 * Abs(now - End) <= Second ]_vars
    /\ \A x \in {Work, Rest} :
          (~Paused /\ Status = x) ~> (Paused \/ Status # x)

\* the work period has expired: Rest, with a full rest period ahead
C4_Witness ==
    /\ Ops = <<"timer">>
    /\ ~hist[1].Paused
    /\ hist[1].Status = Work
    /\ hist[1].End = now
    /\ Status = Rest
    /\ End = now + rFlag * Minute

\* the operation the specification maps each input to
Expected(buffer) ==
    CASE buffer = <<"P","A","U","S","E","\n">>         -> "pause"
      [] buffer = <<" ","t","o","g","g","l","e","\n">> -> "toggle"
      [] buffer = <<"i","n","c","\n">>                 -> "inc"
      [] buffer = <<"D","e","c">>                      -> "dec"
      [] OTHER                                         -> "none"

\* the step has the effect the specification gives the operation `op`
EffectOf(op) ==
    CASE op = "pause"  -> Paused' = ~Paused /\ End' = End /\ Status' = Status
      [] op = "toggle" -> /\ Status' = Other(Status)
                          /\ End' = now + ConfiguredDuration(Other(Status))
                          /\ Paused' = Paused
      [] op = "inc"    -> /\ 2 * Abs(End' - (End + 5 * Second)) <= Second
                          /\ Paused' = Paused /\ Status' = Status
      [] op = "dec"    -> /\ 2 * Abs(End' - (End - 5 * Second)) <= Second
                          /\ Paused' = Paused /\ Status' = Status
      [] OTHER         -> FALSE

\* the connections whose handler hands its command over in this step
HandedOver == {c \in Conns : conn[c].pc = "send" /\ conn'[c].pc # "send"}

\* C5: a handler that has read a well-formed command blocks on handing it
\* over; the step that takes it applies the mapped operation, for one
\* handler at a time; a handler that has handed its command over is done
\* for good; and no command case runs without a handler handing over.
C5_OneMutationPerCommand ==
    [][ /\ \A c \in Conns : conn[c].pc = "read" /\ conn'[c].pc # "read" =>
             \A b \in Inputs : (Expected(b) # "none" /\ ReadInput(c, b)) =>
                 conn'[c].pc = "send" /\ conn'[c].buffer = b
        /\ \A c \in HandedOver :
             /\ conn'[c].pc = "done"
             /\ EffectOf(Expected(conn[c].buffer))
             /\ HandedOver = {c}
        /\ \A c \in Conns : conn[c].pc = "done" => conn'[c].pc = "done"
        /\ (hist' # hist /\ LastOp' \in {"pause", "toggle", "inc", "dec"})
             => \E c \in HandedOver : LastOp' = Expected(conn[c].buffer) ]_vars

\* `PAUSE\n` has been applied as Pause, once, and its handler is done
C5_Witness ==
    /\ \E c \in Conns : conn[c].pc = "done"
    /\ Ops = <<"pause">>
    /\ Paused # hist[1].Paused
    /\ End = hist[1].End

\* C6: a connection that delivers anything but pause/toggle/inc/dec ends
\* its handler without a command: phase, paused, periodEnd, the expiry
\* timer and the ticker stay as they are, no line is written, and the
\* handler never hands anything over later.
C6_UnrecognizedIgnored ==
    [][ /\ \A c \in Conns : conn[c].pc = "read" /\ conn'[c].pc # "read" =>
             \A b \in Inputs : (Expected(b) = "none" /\ ReadInput(c, b)) =>
                 /\ conn'[c].pc = "ignored"
                 /\ UNCHANGED <<End, Paused, Status, Timer, Ticker>>
                 /\ out' = out
        /\ \A c \in Conns : conn[c].pc = "ignored" => conn'[c].pc = "ignored" ]_vars

\* a handler has ended without sending a command
C6_Witness == \E c \in Conns : conn[c].pc = "ignored"

\* the step resumes a timer that was paused while running, with no other
\* command in between
Resumed == Paused /\ pausedFor # <<>> /\ \E c \in Conns : MainPause(c)

\* time gained (lost, when negative) by the pause that the step ends
Gained == (End' - now') - pausedFor[1].remaining

\* C3: Pause() of a running timer followed, with no other command in
\* between, by Pause() restores paused, leaves the phase as it was, leaves
\* the remaining time within one second of what it was when pausing, and
\* arms the expiry timer to fire at periodEnd.
C3_PauseInvolution ==
    [][ Resumed =>
          /\ ~Paused'
          /\ Status' = pausedFor[1].Status
          /\ Abs(Gained) <= Second
          /\ Timer'.active /\ Timer'.when = End' ]_vars

\* the phase after n toggles
Toggled(status, n) == IF n % 2 = 0 THEN status ELSE Other(status)

\* the line of a timer that has its full period ahead
FullPeriodLine(paused, status) ==
    [suffix  |-> IF paused THEN "pause" ELSE IF status = Work THEN "tomato" ELSE "rest",
     minutes |-> IF status = Work THEN wFlag ELSE rFlag,
     seconds |-> 0]

\* C8: `toggle` commands that wait at the same time are applied one by one
\* and none is lost: each step serves one of them, flips the phase, sets
\* periodEnd to now + the new phase's duration and writes the line of that
\* state, while the others keep waiting; after n of them in a row the phase
\* is the initial phase toggled n times (the initial phase again for two)
\* and periodEnd is the time of the last toggle + that phase's duration.
C8_ConcurrentToggles ==
    /\ [][ \A c \in HandedOver :
             Expected(conn[c].buffer) = "toggle" =>
                 /\ HandedOver = {c}
                 /\ \A d \in Conns \ {c} : conn'[d] = conn[d]
                 /\ Status' = Other(Status)
                 /\ End' = now + ConfiguredDuration(Other(Status))
                 /\ Paused' = Paused
                 /\ out' = Append(out, FullPeriodLine(Paused, Other(Status))) ]_vars
    /\ []( (hist # <<>> /\ \A i \in 1..Len(hist) : hist[i].op = "toggle") =>
             /\ Status = Toggled(hist[1].Status, Len(hist))
             /\ End = now + ConfiguredDuration(Status)
             /\ Paused = hist[1].Paused )

\* two handlers sent `toggle` at the same time and both are done
C8_Witness ==
    /\ \A c \in {1, 2} : conn[c].pc = "done"
    /\ Ops = <<"toggle", "toggle">>
    /\ Status = hist[1].Status
    /\ End = now + ConfiguredDuration(Status)
    /\ Len(out) = 2

\* the step applies Inc(-5s) right after Inc(+5s)
DecAfterInc ==
    /\ LastOp = "inc"
    /\ Len(hist') = Len(hist) + 1
    /\ LastOp' = "dec"

\* the state that the Inc(+5s) before the step found
BeforeInc == hist[Len(hist)]

\* C9: Inc(+5s) immediately followed by Inc(-5s) returns periodEnd to the
\* whole second nearest to its original value (at most half a second
\* away), leaves phase and paused as they were and, when running, leaves
\* the expiry timer armed for that periodEnd.
C9_IncRoundTrip ==
    [][ DecAfterInc =>
          /\ 2 * Abs(End' - BeforeInc.End) <= Second
          /\ End' % Second = 0
          /\ Status' = BeforeInc.Status
          /\ Paused' = BeforeInc.Paused
          /\ ~Paused' => (Timer'.active /\ Timer'.when = End') ]_vars

\* a running timer after inc, dec: periodEnd has moved to the whole second
C9_Witness ==
    /\ Len(hist) >= 2
    /\ hist[Len(hist) - 1].op = "inc"
    /\ hist[Len(hist)].op = "dec"
    /\ ~Paused
    /\ End # hist[Len(hist) - 1].End
    /\ Timer.active /\ Timer.when = End

\* the first of the cases that end `h` and are all `inc` or ticks
RECURSIVE RunStart(_, _)
RunStart(h, i) ==
    IF i > 1 /\ h[i - 1].op \in {"inc", "tick"} THEN RunStart(h, i - 1) ELSE i

IncRun(h) == RunStart(h, Len(h))..Len(h)

\* the `inc` commands of the run, and its ticks taken while paused
IncsOf(h) == Cardinality({i \in IncRun(h) : h[i].op = "inc"})

TicksOf(h) == Cardinality({i \in IncRun(h) : h[i].op = "tick" /\ h[i].Paused})

\* the state the run started from
RunFrom(h) == h[RunStart(h, Len(h))]

\* the remaining time as displayed, in seconds
Shown(end, t) == RoundDuration(end - t) \div Second

\* the step applies the `inc` of some handler
IncApplied == \E c \in HandedOver : Expected(conn[c].buffer) = "inc"

\* C10 as claimed: n `inc` commands in immediate succession, whatever ticks
\* are taken in between, increase the displayed remaining time by exactly
\* 5*n seconds and leave the phase unchanged.
C10_ExactlyFiveEach ==
    [][ IncApplied =>
          /\ Shown(End', now) - Shown(RunFrom(hist').End, now) = 5 * IncsOf(hist')
          /\ Status' = RunFrom(hist').Status ]_vars

\* C10, amended: n `inc` commands in immediate succession increase
\* periodEnd by 5*n seconds, plus one second for each tick taken in between
\* while paused, to within the half second by which Inc rounds periodEnd to
\* the whole second; the displayed remaining time increases by the same
\* amount to within one second; phase and paused are unchanged.
C10_IncAdditive ==
    [][ IncApplied =>
          LET from  == RunFrom(hist')
              added == 5 * IncsOf(hist') + TicksOf(hist')
          IN  /\ 2 * Abs(End' - (from.End + added * Second)) <= Second
              /\ End' % Second = 0
              /\ Abs(Shown(End', now) - Shown(from.End, now) - added) <= 1
              /\ Status' = from.Status
              /\ Paused' = from.Paused ]_vars

\* two `inc` in a row on a running timer, whose first was rounded
C10_Witness ==
    /\ Len(hist) >= 2
    /\ hist[Len(hist) - 1].op = "inc"
    /\ hist[Len(hist)].op = "inc"
    /\ ~Paused
    /\ hist[Len(hist) - 1].End % Second # 0
    /\ End = hist[Len(hist)].End + 5 * Second

\* ------------------------------------------------------------------ C7
\* the goroutines of the mutex-based program that access the state
Procs == Mutators \cup {Renderer}

Position(w) == IF w = Renderer THEN render.pc ELSE PcOf(w)

\* `w` is between the first and the last access of an operation
Inside(w) ==
    Position(w) \in {"Toggle.Status", "Toggle.End", "Pause.Timer", "Pause.Paused",
                     "Tick.End", "String.suffix", "String.elapsedTime"}

MutualExclusion ==
    /\ \A w \in Procs : Inside(w) => mu = w
    /\ \A w, v \in Procs : Inside(w) /\ Inside(v) => w = v
    /\ (\A w \in Procs : ~Inside(w)) => Paused = Ticker.active

\* a step of the mutex-based program: while a goroutine is inside an
\* operation no other reads or writes the state, and a line is computed
\* from one state, with no operation under way
MutexAtomicStep ==
    /\ \A w \in Procs :
           Inside(w) /\ Position(w)' = Position(w)
           => /\ UNCHANGED <<End, Paused, Status>>
              /\ render.pc \in {"String.suffix", "String.elapsedTime"}
                 => render' = render
    /\ render.pc = "String.elapsedTime" /\ render'.pc = "Println"
       => /\ render'.line = <<String(End, Paused, Status)>>
          /\ \A w \in Mutators : ~Inside(w)
          /\ Paused = Ticker.active

\* the select loop has taken a case
MainLoopStep == Len(hist') = Len(hist) + 1

\* a step of the channel-based program: the state changes in steps of the
\* select loop only, and such a step applies its operation in full and
\* writes the line of the state it leaves
ChannelAtomicStep ==
    /\ now' = now /\ <<End, Paused, Status>>' # <<End, Paused, Status>>
       => MainLoopStep
    /\ MainLoopStep
       => /\ out' = Append(out, String(End', Paused', Status'))
          /\ Status' # Status
             => /\ End' = now + ConfiguredDuration(Status')
                /\ Timer'.active /\ Timer'.when = End'
                /\ Paused' = Paused
          /\ Paused' # Paused
             => /\ IF Paused' THEN ~Timer'.active
                              ELSE Timer'.active /\ Timer'.when = End'
                /\ End' = End /\ Status' = Status
          /\ End' # End /\ Status' = Status
             => /\ Paused' = Paused
                /\ ~Paused => /\ Timer'.active
                              /\ 2 * Abs(Timer'.when - End') <= Second

\* C7: in both programs the operations on the state (Pause, Toggle, Inc,
\* the expiry, the tick while paused) and the rendering of a line are
\* atomic with respect to each other: none runs while another is under
\* way, and every line is computed from a state in which every operation
\* is applied in full or not at all.
C7_Atomic ==
    /\ [](program = "mutex" => MutualExclusion)
    /\ [][ /\ program = "channel" => ChannelAtomicStep
           /\ program = "mutex" => MutexAtomicStep ]_vars

\* the display loop is between its two reads of the state while Update
\* waits to apply an expiry and a handler waits to apply `pause`
C7_Witness ==
    /\ program = "mutex"
    /\ render.pc = "String.elapsedTime"
    /\ update = "Toggle"
    /\ \E c \in Conns : conn[c].pc = "Pause"

\* ------------------------------------------------------------------ C11
\* the status lines among the lines written since the clock last moved
StatusLines ==
    {out[i] : i \in {j \in 1..Len(out) : out[j].suffix \in {"pause", "tomato", "rest"}}}

\* C11: every status line shows a remaining time that is not negative:
\* minutes >= 0 and seconds within a minute (0..59 of a minute of 60 s).
C11_NeverNegative ==
    \A line \in StatusLines :
        line.minutes >= 0 /\ line.seconds \in 0..(MinuteSecs - 1)

\* ------------------------------------------------------------------ C12
IsStatusLine(line) == line.suffix \in {"pause", "tomato", "rest"}

\* the step writes a status line
StatusLineWritten ==
    /\ Len(out') = Len(out) + 1
    /\ IsStatusLine(out'[Len(out')])

\* the step writes the line of the 1-second cadence: the line of a tick in
\* the channel-based program, the line of the display loop in the
\* mutex-based one; the next such line is due one second later
CadenceLine ==
    /\ StatusLineWritten
    /\ IF program = "channel"
       THEN /\ MainLoopStep /\ LastOp' = "tick"
            /\ Ticker'.C = 0 /\ Ticker'.next = now + Second
       ELSE /\ render.pc = "Println" /\ render'.pc = "Sleep"
            /\ render'.wake = now + Second

\* the clock moves only while the next line of the cadence is not yet due
CadenceKept ==
    now' # now =>
        IF program = "channel"
        THEN Ticker.C = 0 /\ Ticker.active /\ Ticker.next > now
        ELSE render.pc = "Sleep" /\ render.wake > now

\* the select loop takes a command or a timer event: one line at once
EventLine ==
    /\ program = "channel"
    /\ MainLoopStep
    /\ LastOp' \in {"pause", "toggle", "inc", "dec", "timer"}
    /\ out' = Append(out, String(End', Paused', Status'))

\* C12 (as stated): the status lines are exactly the lines of the 1-second
\* cadence, one per second whatever commands and expiries occur: every
\* status line is a line of the cadence, and the clock never passes a
\* second without one.
C12_ExactlyOnePerSecond ==
    [][ /\ StatusLineWritten => CadenceLine
        /\ CadenceKept ]_vars

\* C12 (amended): the cadence gives one status line per second; in the
\* channel-based program every command applied and every timer event taken
\* writes one more line at once; no other status line is written.
C12_CadencePlusEvents ==
    [][ /\ StatusLineWritten => CadenceLine \/ EventLine
        /\ CadenceKept
        /\ (program = "channel" /\ MainLoopStep) => StatusLineWritten
        /\ (render.pc = "Println" /\ render'.pc # "Println") => StatusLineWritten
      ]_vars

\* the channel-based program has written the line of a tick and the line
\* of a command at the same instant
C12_Witness ==
    /\ program = "channel"
    /\ Len(out) = 2
    /\ \E i, j \in 1..Len(hist) : hist[i].op = "tick" /\ hist[j].op = "pause"

\* ------------------------------------------------------------------ C13
\* C13: a handler that has read a well-formed command (and waits to hand
\* it over) is eventually served and ends; the command is applied before
\* the clock moves, so before the next tick; the step that applies it ends
\* the handler and writes the line of the state the command leaves.
C13_BoundedResponse ==
    /\ \A c \in 1..MaxConns : (conn[c].pc = "send") ~> (conn[c].pc = "done")
    /\ [][ /\ now' # now => \A c \in Conns : conn[c].pc # "send"
           /\ \A c \in HandedOver :
                /\ conn'[c].pc = "done"
                /\ MainLoopStep /\ LastOp' = Expected(conn[c].buffer)
                /\ out' = Append(out, String(End', Paused', Status')) ]_vars

\* two handlers waited with the same command; one has been served, the
\* other still waits
C13_Witness ==
    /\ \E c, d \in Conns :
        /\ conn[c].pc = "done" /\ conn[d].pc = "send"
        /\ hist # <<>> /\ LastOp = Expected(conn[d].buffer)
    /\ out # <<>>

\* ------------------------------------------------------------------ C14
\* the client of connection `c` never sends: its handler stays in the read
NeverSends(c) == <>[](conn[c].pc = "read")

\* the accept loop, the other handlers and the select loop can take their
\* next step whatever handlers are blocked in their read
NothingBlocked ==
    /\ \A d \in Conns :
         /\ (conn[d].pc = "idle" /\ \A e \in 1..(d - 1) : conn[e].pc # "idle")
               => ENABLED Accept(d)
         /\ conn[d].pc = "read" => ENABLED Read(d) /\ ENABLED ReadError(d)
         /\ conn[d].pc = "send"
               => ENABLED (MainPause(d) \/ MainToggle(d) \/ MainInc(d))
    /\ Ticker.C > 0 => ENABLED MainTicker
    /\ Timer.C > 0 => ENABLED MainTimer
    /\ Ticker.active /\ Ticker.next <= now => ENABLED TickerFire
    /\ (\A d \in Conns : conn[d].pc # "send") /\ Ticker.C = 0 /\ Timer.C = 0 /\ ~Due
          => ENABLED Advance

\* C14: a connection whose client never sends blocks nothing: every other
\* step stays possible, and in every run in which a handler stays in its
\* read for ever, the commands of the other connections are still applied
\* and the ticks (with their status lines) go on.
C14_Isolation ==
    /\ []NothingBlocked
    /\ \A c \in 1..MaxConns :
         NeverSends(c) =>
            /\ \A d \in (1..MaxConns) \ {c} :
                 (conn[d].pc = "send") ~> (conn[d].pc = "done")
            /\ []<>(hist # <<>> /\ LastOp = "tick" /\ out # <<>>)

\* the first connection is still silent while a later one has connected,
\* sent its command and been served, and a tick has been taken
C14_Witness ==
    /\ conn[1].pc = "read"
    /\ \E d \in Conns : conn[d].pc = "done"
    /\ \E i \in 1..Len(hist) : hist[i].op = "tick"
    /\ Len(out) >= 2

\* ------------------------------------------------------------------ C15
ErrorLine == [suffix |-> "Error reading:", minutes |-> 0, seconds |-> 0]

\* the step reports a read error
ErrorReported == Len(out') = Len(out) + 1 /\ out'[Len(out')] = ErrorLine

\* the handlers whose read ends in this step
ReadEnded == {c \in Conns : conn[c].pc = "read" /\ conn'[c].pc # "read"}

\* C15: a read error ends the handler of that connection and nothing else:
\* no command is handed over then or later, phase, paused, periodEnd, the
\* timer and the ticker stay as they are, the other handlers are untouched
\* and nothing gets blocked; a command another handler hands over after the
\* failure is still applied.
C15_ReadErrorLocal ==
    /\ [][ /\ ErrorReported =>
                /\ \E c \in Conns : ReadEnded = {c} /\ conn'[c].pc = "failed"
                /\ \A d \in Conns \ ReadEnded : conn'[d] = conn[d]
                /\ UNCHANGED <<End, Paused, Status, Timer, Ticker, hist>>
           /\ \A c \in Conns : conn[c].pc = "failed" => conn'[c].pc = "failed"
         ]_vars
    /\ []((\E c \in Conns : conn[c].pc = "failed") => NothingBlocked)
    /\ \A c, d \in 1..MaxConns :
          (conn[c].pc = "failed" /\ conn[d].pc = "send") ~> (conn[d].pc = "done")

\* a read failed, and after it, at the same instant, the command of
\* another connection was applied
C15_Witness ==
    /\ \E c, d \in Conns : conn[c].pc = "failed" /\ conn[d].pc = "done"
    /\ Len(out) = 2 /\ out[1] = ErrorLine /\ IsStatusLine(out[2])
    /\ Len(hist) = 1 /\ LastOp \in {"pause", "toggle", "inc", "dec"}

\* ------------------------------------------------------------------ C16
\* the step applies the automatic toggle of an expiry
ExpiryToggle == MainLoopStep /\ LastOp' = "timer" /\ Status' # Status

\* the step applies Toggle, Pause or Inc and leaves the timer running
RunningAfterOp ==
    /\ MainLoopStep
    /\ LastOp' \in {"pause", "toggle", "inc", "dec", "timer"}
    /\ <<End, Paused, Status>>' # <<End, Paused, Status>>
    /\ ~Paused'

\* C16: while not paused the expiry follows periodEnd: every operation that
\* leaves the timer running leaves it armed for periodEnd (to the second),
\* and the automatic toggle is applied only once periodEnd is reached (to
\* the second), also when a command is applied between the firing of the
\* timer and the select loop taking that event.
C16_ExpiryFollowsEnd ==
    [][ /\ RunningAfterOp =>
              Timer'.active /\ 2 * Abs(Timer'.when - End') <= Second
        /\ ExpiryToggle => 2 * (End - now) <= Second ]_vars

\* ------------------------------------------------------------------ C17
\* C17: in every state that is paused the expiry timer is stopped: it is
\* not armed, so it cannot fire.
C17_FrozenWhilePaused == Paused => ~Timer.active

\* ------------------------------------------------------------------ C18
\* Update applies the toggle of an expiry (its write of Status)
UpdateToggles == update = "Toggle.Status" /\ update' = "Toggle.End"

\* Update applies a tick (its write of End)
UpdateTicks == update = "Tick.End" /\ update' = "select"

\* C18: in the mutex-based program no expiry toggle is applied in a paused
\* state and no tick moves periodEnd in a running state.
C18_UpdateRespectsPause ==
    [][ /\ UpdateToggles => ~Paused
        /\ UpdateTicks => Paused ]_vars

\* ------------------------------------------------------------------ C19
\* the command the select loop takes over in this step ("" if none)
Command == IF HandedOver = {} THEN ""
           ELSE Expected(conn[CHOOSE c \in HandedOver : TRUE].buffer)

\* the select loop takes a tick in this step
TickTaken == program = "channel" /\ Ticker.C > 0 /\ Ticker'.C = 0 /\ now' = now

\* C19: each operation changes its own part of the state only.  Inc moves
\* periodEnd by its delta (rounded to the second) and, when running, the
\* timer's deadline, never phase or paused; Pause flips paused and stops or
\* re-arms the timer, never phase or periodEnd; Toggle changes phase and
\* periodEnd (a full period from now), never paused, so after a `toggle`
\* while paused the state is paused in the other phase with a full period
\* shown; a tick moves periodEnd by a second when paused and changes
\* nothing when running.
C19_FrameConditions ==
    [][ /\ Command \in {"inc", "dec"} =>
             /\ UNCHANGED <<Status, Paused, Ticker>>
             /\ LET delta == IF Command = "inc" THEN IncStep * Second
                                                ELSE -(IncStep * Second)
                IN  End' # End /\ 2 * Abs(End' - (End + delta)) <= Second
             /\ Paused => Timer' = Timer
        /\ Command = "pause" =>
             /\ UNCHANGED <<Status, End, Ticker>>
             /\ Paused' = ~Paused
        /\ Command = "toggle" =>
             /\ UNCHANGED <<Paused, Ticker>>
             /\ Status' = Other(Status)
             /\ End' = now + ConfiguredDuration(Status')
             /\ out'[Len(out')] = FullPeriodLine(Paused, Other(Status))
        /\ TickTaken =>
             /\ UNCHANGED <<Status, Paused>>
             /\ IF Paused
                THEN /\ 2 * Abs(End' - (End + Second)) <= Second
                     /\ Timer' = Timer
                ELSE UNCHANGED <<End, Timer>> ]_vars

\* a `toggle` was applied while paused: still paused, in the other phase,
\* with a full period remaining
C19_Witness ==
    /\ Len(hist) = 1 /\ LastOp = "toggle" /\ hist[1].Paused
    /\ Paused /\ Status = Other(hist[1].Status)
    /\ End = now + ConfiguredDuration(Status)
    /\ out[Len(out)].suffix = "pause"

\* ------------------------------------------------------------------ C20
\* a tick event is taken in a paused state: by the select loop of the
\* channel-based program, or by Update in the mutex-based one
TickWhilePaused == Paused /\ (TickTaken \/ (program = "mutex" /\ UpdateTicks))

====
